---- MODULE Spec2Model ----
(***************************************************************************)
(* Protocol v1 git-upload-pack response: the chunk encoder                 *)
(* (ProtocolV1UploadPackResponseChunk.EncodeToPktLine) and the response    *)
(* scanner (ProtocolV1UploadPackResponse.Scan) of v1uploadpackresp.go.     *)
(*                                                                         *)
(* A Go string / []byte is a sequence of one-character strings.  A packet  *)
(* is a record [kind, data]; the pkt-line length header is the framing     *)
(* layer's business and is not modelled.                                   *)
(***************************************************************************)
EXTENDS Integers, Sequences, FiniteSets, TLC

VARIABLES
    state,      \* r.state
    err,        \* r.err ("nil" when nil)
    curr,       \* r.curr: <<>> when nil, <<chunk>> otherwise
    scanner,    \* the PacketScanner: "open", "eof" or "failed"
    pkt,        \* r.scanner.Packet(), the packet of the last successful read
    ret,        \* what the last call of Scan returned: "none", "true", "false", "panic"
    reads,      \* calls of r.scanner.Scan() so far
    frames,     \* packets handed over by the scanner so far
    events,     \* calls of Scan that returned true so far
    input,      \* a stream fixed in advance; frames of its packets have been read
    emitted,    \* the chunks returned so far while reading such a stream
    encIn,      \* the chunk given to EncodeToPktLine
    encOut      \* what EncodeToPktLine returned for encIn

vars == <<state, err, curr, scanner, pkt, ret, reads, frames, events, input, emitted,
          encIn, encOut>>
decVars == <<state, err, curr, scanner, pkt, ret, reads, frames, events>>
encVars == <<encIn, encOut>>
streamVars == <<input, emitted>>

----------------------------------------------------------------------------
(* Bounds *)

\* longest object id / pack payload the scanner input is built from
MaxIdLen == 1
\* longest ACK detail the scanner input is built from
MaxDetailLen == 1
\* most packets one input stream holds before its end
MaxFrames == 4
\* most calls of r.scanner.Scan() the caller's calls of Scan lead to
MaxReads == 6
\* most packets of a stream fixed in advance
MaxStreamLen == 4
\* longest string field of a chunk handed to the encoder
MaxEncLen == 1

\* the characters strings are built from: a letter, the separator, the line end
Alphabet == {"a", " ", "\n"}
\* the characters of the ACK details
DetailAlphabet == {"a", " "}
\* the characters of the encoder's inputs
EncAlphabet == {"a", " "}

SeqsUpTo(S, n) == UNION {[1..k -> S] : k \in 0..n}

----------------------------------------------------------------------------
(* The decoder's states *)

protocolV1UploadPackResponseStateBegin == 0
protocolV1UploadPackResponseStateScanShallows == 1
protocolV1UploadPackResponseStateScanUnshallows == 2
protocolV1UploadPackResponseStateBeginAcknowledgements == 3
protocolV1UploadPackResponseStateScanAcknowledgements == 4
protocolV1UploadPackResponseStateScanPacks == 5
protocolV1UploadPackResponseStateEnd == 6

States == 0..6

----------------------------------------------------------------------------
(* Packets *)

BytesPacket(d) == [kind |-> "bytes", data |-> d]
FlushPacket == [kind |-> "flush", data |-> <<>>]
\* a packet that is neither a BytesPacket nor a FlushPacket
OtherPacket == [kind |-> "other", data |-> <<>>]
\* no packet: the scanner has read nothing / the encoder panicked
NoPacket == [kind |-> "nil", data |-> <<>>]
PanicPacket == [kind |-> "panic", data |-> <<>>]

----------------------------------------------------------------------------
(* Chunks *)

ZeroChunk ==
    [ShallowObjectID |-> <<>>, UnshallowObjectID |-> <<>>, EndOfShallows |-> FALSE,
     AckObjectID |-> <<>>, AckDetail |-> <<>>, Nak |-> FALSE,
     PackStream |-> <<>>, EndOfRequest |-> FALSE]

\* how many variants of the chunk are populated
NumVariants(c) ==
      (IF c.ShallowObjectID # <<>> THEN 1 ELSE 0)
    + (IF c.UnshallowObjectID # <<>> THEN 1 ELSE 0)
    + (IF c.EndOfShallows THEN 1 ELSE 0)
    + (IF c.AckObjectID # <<>> THEN 1 ELSE 0)
    + (IF c.Nak THEN 1 ELSE 0)
    + (IF c.PackStream # <<>> THEN 1 ELSE 0)
    + (IF c.EndOfRequest THEN 1 ELSE 0)

----------------------------------------------------------------------------
(* Strings *)

\* kShallow without the space that ends the keyword
kShallowNoSpace == <<"s", "h", "a", "l", "l", "o", "w">>
kShallow == <<"s", "h", "a", "l", "l", "o", "w", " ">>
kUnshallow == <<"u", "n", "s", "h", "a", "l", "l", "o", "w", " ">>
kAck == <<"A", "C", "K", " ">>
kNak == <<"N", "A", "K", "\n">>

\* bytes.HasPrefix
HasPrefix(s, p) == Len(s) >= Len(p) /\ SubSeq(s, 1, Len(p)) = p

\* TrimSuffix that trims nothing
TrimSuffixNone(s, suf) == s

\* strings.TrimSuffix
TrimSuffix(s, suf) ==
    IF Len(s) >= Len(suf) /\ SubSeq(s, Len(s) - Len(suf) + 1, Len(s)) = suf
    THEN SubSeq(s, 1, Len(s) - Len(suf))
    ELSE s

\* strings.Index for a one-character separator: 0 when sep is not in s
Index(s, sep) ==
    IF \E i \in 1..Len(s) : s[i] = sep
    THEN CHOOSE i \in 1..Len(s) : s[i] = sep /\ \A j \in 1..(i - 1) : s[j] # sep
    ELSE 0

\* strings.SplitN for a one-character separator and n > 0
RECURSIVE SplitN(_, _, _)
SplitN(s, sep, n) ==
    IF n = 1 \/ Index(s, sep) = 0
    THEN <<s>>
    ELSE <<SubSeq(s, 1, Index(s, sep) - 1)>>
         \o SplitN(SubSeq(s, Index(s, sep) + 1, Len(s)), sep, n - 1)

----------------------------------------------------------------------------
(* EncodeToPktLine *)

\* EncodeToPktLine that ends in a flush packet instead of the panic
EncodeToPktLineNoPanic(c) ==
    IF c.ShallowObjectID # <<>> THEN
        BytesPacket(kShallow \o c.ShallowObjectID \o <<"\n">>)
    ELSE IF c.UnshallowObjectID # <<>> THEN
        BytesPacket(kUnshallow \o c.UnshallowObjectID \o <<"\n">>)
    ELSE IF c.EndOfShallows THEN
        FlushPacket
    ELSE IF c.AckObjectID # <<>> THEN
        IF c.AckDetail # <<>>
        THEN BytesPacket(kAck \o c.AckObjectID \o <<" ">> \o c.AckDetail \o <<"\n">>)
        ELSE BytesPacket(kAck \o c.AckObjectID \o <<"\n">>)
    ELSE IF c.Nak THEN
        BytesPacket(kNak)
    ELSE IF Len(c.PackStream) # 0 THEN
        BytesPacket(c.PackStream)
    ELSE FlushPacket

\* EncodeToPktLine that writes the space before the detail even when the
\* detail is empty
EncodeToPktLineAlwaysDetail(c) ==
    IF c.ShallowObjectID # <<>> THEN
        BytesPacket(kShallow \o c.ShallowObjectID \o <<"\n">>)
    ELSE IF c.UnshallowObjectID # <<>> THEN
        BytesPacket(kUnshallow \o c.UnshallowObjectID \o <<"\n">>)
    ELSE IF c.EndOfShallows THEN
        FlushPacket
    ELSE IF c.AckObjectID # <<>> THEN
        BytesPacket(kAck \o c.AckObjectID \o <<" ">> \o c.AckDetail \o <<"\n">>)
    ELSE IF c.Nak THEN
        BytesPacket(kNak)
    ELSE IF Len(c.PackStream) # 0 THEN
        BytesPacket(c.PackStream)
    ELSE IF c.EndOfRequest THEN
        FlushPacket
    ELSE PanicPacket

EncodeToPktLine(c) ==
    IF c.ShallowObjectID # <<>> THEN
        BytesPacket(kShallow \o c.ShallowObjectID \o <<"\n">>)
    ELSE IF c.UnshallowObjectID # <<>> THEN
        BytesPacket(kUnshallow \o c.UnshallowObjectID \o <<"\n">>)
    ELSE IF c.EndOfShallows THEN
        FlushPacket
    ELSE IF c.AckObjectID # <<>> THEN
        IF c.AckDetail # <<>>
        THEN BytesPacket(kAck \o c.AckObjectID \o <<" ">> \o c.AckDetail \o <<"\n">>)
        ELSE BytesPacket(kAck \o c.AckObjectID \o <<"\n">>)
    ELSE IF c.Nak THEN
        BytesPacket(kNak)
    ELSE IF Len(c.PackStream) # 0 THEN
        BytesPacket(c.PackStream)
    ELSE IF c.EndOfRequest THEN
        FlushPacket
    ELSE PanicPacket

----------------------------------------------------------------------------
(* Scan: the switch over r.state, one operator per case label.  Each       *)
(* yields what the call leaves behind: the return value and the new        *)
(* r.state, r.curr and r.err.                                              *)

Emit(st, c) == [ret |-> "true", state |-> st, curr |-> <<c>>, err |-> "nil"]
\* Fail that drops the current chunk
FailClearsCurr(st, cur, e) == [ret |-> "false", state |-> st, curr |-> <<>>, err |-> e]
\* Fail that also ends the response
FailMovesToEnd(st, cur, e) == [ret |-> "false", state |-> protocolV1UploadPackResponseStateEnd, curr |-> cur, err |-> e]
Fail(st, cur, e) == [ret |-> "false", state |-> st, curr |-> cur, err |-> e]

\* case ScanPacks that leaves r.state alone on a byte payload
CaseScanPacksKeepsState(st, cur, p) ==
    IF p.kind = "flush" THEN
        Emit(protocolV1UploadPackResponseStateEnd, [ZeroChunk EXCEPT !.EndOfRequest = TRUE])
    ELSE IF p.kind = "bytes" THEN
        Emit(st, [ZeroChunk EXCEPT !.PackStream = p.data])
    ELSE Fail(st, cur, "unexpected packet")

\* case ScanPacks that trims the line end off the payload, as the cases for
\* the lines do
CaseScanPacksTrimsLine(st, cur, p) ==
    IF p.kind = "flush" THEN
        Emit(protocolV1UploadPackResponseStateEnd, [ZeroChunk EXCEPT !.EndOfRequest = TRUE])
    ELSE IF p.kind = "bytes" THEN
        Emit(protocolV1UploadPackResponseStateScanPacks,
             [ZeroChunk EXCEPT !.PackStream = TrimSuffix(p.data, <<"\n">>)])
    ELSE Fail(st, cur, "unexpected packet")

\* case ScanPacks
CaseScanPacks(st, cur, p) ==
    IF p.kind = "flush" THEN
        Emit(protocolV1UploadPackResponseStateEnd, [ZeroChunk EXCEPT !.EndOfRequest = TRUE])
    ELSE IF p.kind = "bytes" THEN
        Emit(protocolV1UploadPackResponseStateScanPacks, [ZeroChunk EXCEPT !.PackStream = p.data])
    ELSE Fail(st, cur, "unexpected packet")

\* case BeginAcknowledgements, ScanAcknowledgements without the check for
\* Begin before the fallthrough
CaseAcknowledgementsNoBeginCheck(st, cur, p) ==
    IF p.kind = "bytes" /\ HasPrefix(p.data, kAck) THEN
        LET ss == SplitN(TrimSuffix(p.data, <<"\n">>), " ", 3) IN
        IF Len(ss) < 2 THEN Fail(st, cur, "cannot split ACK")
        ELSE Emit(protocolV1UploadPackResponseStateScanAcknowledgements,
                  [ZeroChunk EXCEPT !.AckObjectID = ss[2],
                                    !.AckDetail = IF Len(ss) = 3 THEN ss[3] ELSE <<>>])
    ELSE IF p.kind = "bytes" /\ p.data = kNak THEN
        Emit(protocolV1UploadPackResponseStateScanPacks, [ZeroChunk EXCEPT !.Nak = TRUE])
    ELSE CaseScanPacks(st, cur, p)

\* case BeginAcknowledgements, ScanAcknowledgements with the check for
\* Begin ahead of the ACK and NAK lines
CaseAcknowledgementsBeginCheckFirst(st, cur, p) ==
    IF st = protocolV1UploadPackResponseStateBegin THEN
        Fail(st, cur, "unexpected packet")
    ELSE IF p.kind = "bytes" /\ HasPrefix(p.data, kAck) THEN
        LET ss == SplitN(TrimSuffix(p.data, <<"\n">>), " ", 3) IN
        IF Len(ss) < 2 THEN Fail(st, cur, "cannot split ACK")
        ELSE Emit(protocolV1UploadPackResponseStateScanAcknowledgements,
                  [ZeroChunk EXCEPT !.AckObjectID = ss[2],
                                    !.AckDetail = IF Len(ss) = 3 THEN ss[3] ELSE <<>>])
    ELSE IF p.kind = "bytes" /\ p.data = kNak THEN
        Emit(protocolV1UploadPackResponseStateScanPacks, [ZeroChunk EXCEPT !.Nak = TRUE])
    ELSE CaseScanPacks(st, cur, p)

\* case BeginAcknowledgements, ScanAcknowledgements
CaseAcknowledgements(st, cur, p) ==
    IF p.kind = "bytes" /\ HasPrefix(p.data, kAck) THEN
        LET ss == SplitN(TrimSuffix(p.data, <<"\n">>), " ", 3) IN
        IF Len(ss) < 2 THEN Fail(st, cur, "cannot split ACK")
        ELSE Emit(protocolV1UploadPackResponseStateScanAcknowledgements,
                  [ZeroChunk EXCEPT !.AckObjectID = ss[2],
                                    !.AckDetail = IF Len(ss) = 3 THEN ss[3] ELSE <<>>])
    ELSE IF p.kind = "bytes" /\ p.data = kNak THEN
        Emit(protocolV1UploadPackResponseStateScanPacks, [ZeroChunk EXCEPT !.Nak = TRUE])
    ELSE IF st = protocolV1UploadPackResponseStateBegin THEN
        Fail(st, cur, "unexpected packet")
    ELSE CaseScanPacks(st, cur, p)

\* case ScanUnshallows that leaves r.state alone on a flush packet
CaseScanUnshallowsFlushKeepsState(st, cur, p) ==
    IF p.kind = "bytes" /\ HasPrefix(p.data, kUnshallow) THEN
        LET ss == SplitN(TrimSuffix(p.data, <<"\n">>), " ", 2) IN
        IF Len(ss) < 2 THEN Fail(st, cur, "cannot split unshallow")
        ELSE Emit(protocolV1UploadPackResponseStateScanUnshallows,
                  [ZeroChunk EXCEPT !.UnshallowObjectID = ss[2]])
    ELSE IF p.kind = "flush" THEN
        Emit(st, [ZeroChunk EXCEPT !.EndOfShallows = TRUE])
    ELSE CaseAcknowledgements(st, cur, p)

\* case ScanUnshallows
CaseScanUnshallows(st, cur, p) ==
    IF p.kind = "bytes" /\ HasPrefix(p.data, kUnshallow) THEN
        LET ss == SplitN(TrimSuffix(p.data, <<"\n">>), " ", 2) IN
        IF Len(ss) < 2 THEN Fail(st, cur, "cannot split unshallow")
        ELSE Emit(protocolV1UploadPackResponseStateScanUnshallows,
                  [ZeroChunk EXCEPT !.UnshallowObjectID = ss[2]])
    ELSE IF p.kind = "flush" THEN
        Emit(protocolV1UploadPackResponseStateBeginAcknowledgements,
             [ZeroChunk EXCEPT !.EndOfShallows = TRUE])
    ELSE CaseAcknowledgements(st, cur, p)

\* case Begin, ScanShallows
CaseScanShallows(st, cur, p) ==
    IF p.kind = "bytes" /\ HasPrefix(p.data, kShallow) THEN
        LET ss == SplitN(TrimSuffix(p.data, <<"\n">>), " ", 2) IN
        IF Len(ss) < 2 THEN Fail(st, cur, "cannot split shallow")
        ELSE Emit(protocolV1UploadPackResponseStateScanShallows,
                  [ZeroChunk EXCEPT !.ShallowObjectID = ss[2]])
    ELSE CaseScanUnshallows(st, cur, p)

\* the switch without the case for ScanPacks
SwitchStateNoScanPacks(st, cur, p) ==
    IF st \in {protocolV1UploadPackResponseStateBegin,
               protocolV1UploadPackResponseStateScanShallows} THEN
        CaseScanShallows(st, cur, p)
    ELSE IF st = protocolV1UploadPackResponseStateScanUnshallows THEN
        CaseScanUnshallows(st, cur, p)
    ELSE IF st \in {protocolV1UploadPackResponseStateBeginAcknowledgements,
                    protocolV1UploadPackResponseStateScanAcknowledgements} THEN
        CaseAcknowledgements(st, cur, p)
    ELSE [ret |-> "panic", state |-> st, curr |-> cur, err |-> "nil"]

\* switch r.state { ... } panic("impossible state")
SwitchState(st, cur, p) ==
    IF st \in {protocolV1UploadPackResponseStateBegin,
               protocolV1UploadPackResponseStateScanShallows} THEN
        CaseScanShallows(st, cur, p)
    ELSE IF st = protocolV1UploadPackResponseStateScanUnshallows THEN
        CaseScanUnshallows(st, cur, p)
    ELSE IF st \in {protocolV1UploadPackResponseStateBeginAcknowledgements,
                    protocolV1UploadPackResponseStateScanAcknowledgements} THEN
        CaseAcknowledgements(st, cur, p)
    ELSE IF st = protocolV1UploadPackResponseStateScanPacks THEN
        CaseScanPacks(st, cur, p)
    ELSE [ret |-> "panic", state |-> st, curr |-> cur, err |-> "nil"]

\* the guard without the check for End
StoppedOnErrOnly(e, st) == e # "nil"

\* the guard without the check for an error
StoppedOnEndOnly(e, st) == st = protocolV1UploadPackResponseStateEnd

\* the guard that opens Scan: the scan has stopped
Stopped(e, st) == e # "nil" \/ st = protocolV1UploadPackResponseStateEnd

\* ReadFailErr without the exception for BeginAcknowledgements
ReadFailErrAlwaysEarlyEOF(e, st) == IF e = "nil" THEN "early EOF" ELSE e

\* ReadFailErr that does not look at the scanner's error before it reports
\* the early EOF
ReadFailErrHidesReadError(e, st) ==
    IF st # protocolV1UploadPackResponseStateBeginAcknowledgements
    THEN "early EOF"
    ELSE e

\* r.err after r.scanner.Scan() returned false with scanner error e
ReadFailErr(e, st) ==
    IF e = "nil" /\ st # protocolV1UploadPackResponseStateBeginAcknowledgements
    THEN "early EOF"
    ELSE e

\* the line "shallow" with its line end: no space, no id
ShallowNoIDLine == <<"s", "h", "a", "l", "l", "o", "w", "\n">>

----------------------------------------------------------------------------
(* The input *)

Ids == SeqsUpTo(Alphabet, MaxIdLen) \ {<<>>}
Details == SeqsUpTo(DetailAlphabet, MaxDetailLen)

\* the chunks with exactly one variant populated
ShallowChunks == {[ZeroChunk EXCEPT !.ShallowObjectID = id] : id \in Ids}
UnshallowChunks == {[ZeroChunk EXCEPT !.UnshallowObjectID = id] : id \in Ids}
AckChunks == {[ZeroChunk EXCEPT !.AckObjectID = id, !.AckDetail = d] : id \in Ids, d \in Details}
\* pack payloads: any bytes, those that read like a line of the response too
PackPayloads == Ids \cup {kNak, kAck \o <<"a", "\n">>, kShallow \o <<"a", "\n">>}
PackChunks == {[ZeroChunk EXCEPT !.PackStream = b] : b \in PackPayloads}
WellFormedChunks ==
    ShallowChunks \cup UnshallowChunks \cup AckChunks \cup PackChunks
    \cup {[ZeroChunk EXCEPT !.EndOfShallows = TRUE], [ZeroChunk EXCEPT !.Nak = TRUE],
          [ZeroChunk EXCEPT !.EndOfRequest = TRUE]}

\* payloads no encoder writes: keywords without an id, without the line
\* end, without the separator, and the empty payload
RawPayloads ==
    {kShallow, kShallow \o <<"\n">>, kShallow \o <<"a">>,
     ShallowNoIDLine,
     kUnshallow, kUnshallow \o <<"\n">>, kUnshallow \o <<"a">>,
     <<"u", "n", "s", "h", "a", "l", "l", "o", "w", "\n">>,
     kAck, kAck \o <<"\n">>, kAck \o <<"a">>, <<"A", "C", "K", "\n">>,
     <<"N", "A", "K">>, kNak \o <<"\n">>,
     <<"P", "A", "C", "K">>, <<>>}

\* the packets the scanner can hand over
Packets ==
    {EncodeToPktLine(c) : c \in WellFormedChunks}
    \cup {BytesPacket(d) : d \in RawPayloads}
    \cup {OtherPacket}

\* the chunks the encoder is called on: every combination of fields
EncStrings == SeqsUpTo(EncAlphabet, MaxEncLen)
EncChunks ==
    [ShallowObjectID : EncStrings, UnshallowObjectID : EncStrings, EndOfShallows : BOOLEAN,
     AckObjectID : EncStrings, AckDetail : EncStrings, Nak : BOOLEAN,
     PackStream : EncStrings, EndOfRequest : BOOLEAN]

----------------------------------------------------------------------------
(* The decoder *)

DecInit ==
    /\ state = protocolV1UploadPackResponseStateBegin
    /\ err = "nil"
    /\ curr = <<>>
    /\ scanner = "open"
    /\ pkt = NoPacket
    /\ ret = "none"
    /\ reads = 0
    /\ frames = 0
    /\ events = 0

Init ==
    /\ DecInit
    /\ input = <<>>
    /\ emitted = <<>>
    /\ encIn = ZeroChunk
    /\ encOut = NoPacket

\* Scan when the scan has stopped: returns false at once
ScanStopped ==
    /\ Stopped(err, state)
    /\ ret' = "false"
    /\ UNCHANGED <<state, err, curr, scanner, pkt, reads, frames, events, streamVars, encVars>>

\* Scan when r.scanner.Scan() reports the end of the input
ScanEOF ==
    /\ ~Stopped(err, state)
    /\ scanner \in {"open", "eof"}
    /\ frames >= Len(input)
    /\ reads < MaxReads
    /\ scanner' = "eof"
    /\ err' = ReadFailErr("nil", state)
    /\ ret' = "false"
    /\ reads' = reads + 1
    /\ UNCHANGED <<state, curr, pkt, frames, events, streamVars, encVars>>

\* Scan when r.scanner.Scan() fails with a read error
ScanReadError ==
    /\ ~Stopped(err, state)
    /\ scanner = "open"
    /\ reads < MaxReads
    /\ scanner' = "failed"
    /\ err' = ReadFailErr("read error", state)
    /\ ret' = "false"
    /\ reads' = reads + 1
    /\ UNCHANGED <<state, curr, pkt, frames, events, streamVars, encVars>>

\* Scan when r.scanner.Scan() hands over a packet
ScanPacket ==
    /\ ~Stopped(err, state)
    /\ scanner = "open"
    /\ reads < MaxReads
    /\ frames < MaxFrames
    /\ \E p \in Packets :
        LET r == SwitchState(state, curr, p) IN
        /\ pkt' = p
        /\ state' = r.state
        /\ curr' = r.curr
        /\ err' = r.err
        /\ ret' = r.ret
        /\ events' = IF r.ret = "true" THEN events + 1 ELSE events
    /\ frames' = frames + 1
    /\ reads' = reads + 1
    /\ UNCHANGED <<scanner, streamVars, encVars>>

Next == ScanStopped \/ ScanEOF \/ ScanReadError \/ ScanPacket

Spec == Init /\ [][Next]_vars

----------------------------------------------------------------------------
(* The decoder on a stream fixed in advance: the packets of input, then    *)
(* the end of the input or a read error.                                   *)

\* one packet of each shape the cases of Scan tell apart
StreamPackets ==
    {BytesPacket(kShallow \o <<"a", "\n">>),
     BytesPacket(kUnshallow \o <<"a", "\n">>),
     FlushPacket,
     BytesPacket(kAck \o <<"a", " ", "a", "\n">>),
     BytesPacket(kAck \o <<"a", "\n">>),
     BytesPacket(kNak),
     BytesPacket(<<"P", "A", "C", "K">>),
     OtherPacket}

Streams == SeqsUpTo(StreamPackets, MaxStreamLen)

StreamInit ==
    /\ DecInit
    /\ input \in Streams
    /\ emitted = <<>>
    /\ encIn = ZeroChunk
    /\ encOut = NoPacket

\* Scan when r.scanner.Scan() hands over the next packet of the stream
ScanNext ==
    /\ ~Stopped(err, state)
    /\ scanner = "open"
    /\ frames < Len(input)
    /\ LET r == SwitchState(state, curr, input[frames + 1]) IN
        /\ pkt' = input[frames + 1]
        /\ state' = r.state
        /\ curr' = r.curr
        /\ err' = r.err
        /\ ret' = r.ret
        /\ events' = IF r.ret = "true" THEN events + 1 ELSE events
        /\ emitted' = IF r.ret = "true" THEN emitted \o r.curr ELSE emitted
    /\ frames' = frames + 1
    /\ reads' = reads + 1
    /\ UNCHANGED <<scanner, input, encVars>>

StreamNext == ScanStopped \/ ScanEOF \/ ScanReadError \/ ScanNext

StreamSpec == StreamInit /\ [][StreamNext]_vars

----------------------------------------------------------------------------
(* The encoder, applied to every chunk *)

EncInit ==
    /\ DecInit
    /\ input = <<>>
    /\ emitted = <<>>
    /\ encIn \in EncChunks
    /\ encOut = NoPacket

Encode ==
    /\ encOut = NoPacket
    /\ encOut' = EncodeToPktLine(encIn)
    /\ UNCHANGED <<encIn, decVars, streamVars>>

EncNext == Encode

EncSpec == EncInit /\ [][EncNext]_vars

----------------------------------------------------------------------------
(* Properties of Scan *)

\* a step of Scan in which the scanner handed over a packet
PacketRead == frames' = frames + 1

MalformedLineErrs == {"cannot split shallow", "cannot split unshallow", "cannot split ACK"}

\* C1: once Scan has returned false, every later call returns false,
\* leaves Err unchanged and does not call the scanner's Scan again.
C1_IdempotentTermination ==
    [][ret = "false" => (ret' = "false" /\ err' = err /\ reads' = reads)]_vars

\* C2: every chunk for which Scan returns true has exactly one variant
\* populated.
C2_ExactlyOneVariant ==
    ret = "true" => NumVariants(curr[1]) = 1

\* C2 (failing input): the first packet is "shallow " and the line end,
\* and Scan returns true with an empty ShallowObjectID.
C2_EmptyShallowID ==
    /\ frames = 1
    /\ pkt = BytesPacket(kShallow \o <<"\n">>)
    /\ ret = "true"
    /\ NumVariants(curr[1]) = 0

----------------------------------------------------------------------------
(* Properties of EncodeToPktLine *)

----------------------------------------------------------------------------
(* Round trip *)

\* the phases in which the grammar has a rule for the chunk's variant
GrammarAllows(st, c) ==
    IF c.ShallowObjectID # <<>> THEN
        st \in {protocolV1UploadPackResponseStateBegin,
                protocolV1UploadPackResponseStateScanShallows}
    ELSE IF c.UnshallowObjectID # <<>> \/ c.EndOfShallows THEN
        st \in {protocolV1UploadPackResponseStateBegin,
                protocolV1UploadPackResponseStateScanShallows,
                protocolV1UploadPackResponseStateScanUnshallows}
    ELSE IF c.AckObjectID # <<>> \/ c.Nak THEN
        st \in {protocolV1UploadPackResponseStateBegin,
                protocolV1UploadPackResponseStateBeginAcknowledgements,
                protocolV1UploadPackResponseStateScanAcknowledgements}
    ELSE IF c.PackStream # <<>> THEN
        st = protocolV1UploadPackResponseStateScanPacks
    ELSE
        st \in {protocolV1UploadPackResponseStateBeginAcknowledgements,
                protocolV1UploadPackResponseStateScanAcknowledgements,
                protocolV1UploadPackResponseStateScanPacks}

HasSpace(s) == \E i \in 1..Len(s) : s[i] = " "

\* Scan has read the encoding of c in a phase where the grammar allows c
DecodesEncodingOf(c) ==
    /\ PacketRead
    /\ GrammarAllows(state, c)
    /\ pkt' = EncodeToPktLine(c)

\* C4 (as claimed): Scan, reading the packet EncodeToPktLine made of a
\* well-formed chunk where the grammar allows it, yields that chunk.
C4_RoundTrip ==
    [][\A c \in WellFormedChunks :
        DecodesEncodingOf(c) => (ret' = "true" /\ curr' = <<c>>)]_vars

\* C4 (amended): the same, for the well-formed chunks whose AckObjectID
\* holds no space.
C4_RoundTripNoSpaceInAckID ==
    [][\A c \in WellFormedChunks :
        (DecodesEncodingOf(c) /\ ~HasSpace(c.AckObjectID))
            => (ret' = "true" /\ curr' = <<c>>)]_vars

\* C4 witness: Scan has returned an ACK chunk with a detail from the very
\* packet EncodeToPktLine makes of that chunk.
C4_Witness ==
    /\ ret = "true"
    /\ curr[1] \in WellFormedChunks
    /\ curr[1].AckDetail # <<>>
    /\ ~HasSpace(curr[1].AckObjectID)
    /\ pkt = EncodeToPktLine(curr[1])

----------------------------------------------------------------------------
(* Phases *)

SelfLoopStates ==
    {protocolV1UploadPackResponseStateScanShallows,
     protocolV1UploadPackResponseStateScanUnshallows,
     protocolV1UploadPackResponseStateScanAcknowledgements,
     protocolV1UploadPackResponseStateScanPacks}

\* C5: r.state never decreases, and a call of Scan that returns true leaves
\* r.state as it was only in ScanShallows, ScanUnshallows,
\* ScanAcknowledgements and ScanPacks.
C5_PhaseMonotonic ==
    [][/\ state' >= state
       /\ (ret' = "true" /\ state' = state) => state \in SelfLoopStates]_vars

\* C5 witness: a third chunk has been returned in ScanPacks, a pack chunk
\* after an earlier one.
C5_Witness ==
    /\ state = protocolV1UploadPackResponseStateScanPacks
    /\ ret = "true"
    /\ events >= 3
    /\ curr[1].PackStream # <<>>

\* C6: when the scanner has reported the end of the input, Scan has
\* returned false, and Err is nil in BeginAcknowledgements and the
\* "early EOF" syntax error in every other state.
C6_EndOfStream ==
    scanner = "eof" =>
        /\ ret = "false"
        /\ state # protocolV1UploadPackResponseStateEnd
        /\ (err = "nil") <=> (state = protocolV1UploadPackResponseStateBeginAcknowledgements)
        /\ (err # "nil") => err = "early EOF"

\* C6 witness: flush, then the end of the input: one chunk, EndOfShallows,
\* and no error.
C6_Witness ==
    /\ scanner = "eof"
    /\ frames = 1
    /\ events = 1
    /\ curr[1].EndOfShallows
    /\ err = "nil"

----------------------------------------------------------------------------
(* Malformed and unexpected packets *)

\* the payload is the keyword and its space, with or without the line end
LacksID(d, keyword) == d = keyword \/ d = keyword \o <<"\n">>

\* the packet is a shallow, unshallow or ACK line without an id, read in a
\* state whose case tries that line
MalformedLineIn(st, p) ==
    /\ p.kind = "bytes"
    /\ \/ /\ LacksID(p.data, kShallow)
          /\ st \in {protocolV1UploadPackResponseStateBegin,
                     protocolV1UploadPackResponseStateScanShallows}
       \/ /\ LacksID(p.data, kUnshallow)
          /\ st \in {protocolV1UploadPackResponseStateBegin,
                     protocolV1UploadPackResponseStateScanShallows,
                     protocolV1UploadPackResponseStateScanUnshallows}
       \/ /\ LacksID(p.data, kAck)
          /\ st \in {protocolV1UploadPackResponseStateBegin,
                     protocolV1UploadPackResponseStateBeginAcknowledgements,
                     protocolV1UploadPackResponseStateScanAcknowledgements}

\* C7: a shallow, unshallow or ACK line without an id makes Scan return
\* false with a "cannot split" syntax error and no new chunk.
C7_MalformedLineRejected ==
    [][(PacketRead /\ MalformedLineIn(state, pkt')) =>
        (ret' = "false" /\ err' \in MalformedLineErrs
         /\ curr' = curr /\ events' = events)]_vars

\* C8 (as claimed): when the first packet is "shallow" and the line end,
\* Scan returns false, no chunk was returned, and the error is the
\* "cannot split shallow" one.
C8_ShallowNoIDMalformed ==
    (frames = 1 /\ pkt = BytesPacket(ShallowNoIDLine)) =>
        (ret = "false" /\ events = 0 /\ curr = <<>> /\ err = "cannot split shallow")

\* C8 (amended): when the first packet is "shallow" and the line end,
\* Scan returns false, no chunk was returned, and the error is the
\* "unexpected packet" one.
C8_ShallowNoIDUnexpected ==
    (frames = 1 /\ pkt = BytesPacket(ShallowNoIDLine)) =>
        (ret = "false" /\ events = 0 /\ curr = <<>> /\ err = "unexpected packet"
         /\ state = protocolV1UploadPackResponseStateBegin)

\* C8 witness: the first packet was "shallow" and the line end.
C8_Witness ==
    /\ frames = 1
    /\ pkt = BytesPacket(ShallowNoIDLine)
    /\ ret = "false"

\* the lines the case of state st, and the cases it falls through to, try
Recognized(st, d) ==
    \/ HasPrefix(d, kShallow)
        /\ st \in {protocolV1UploadPackResponseStateBegin,
                   protocolV1UploadPackResponseStateScanShallows}
    \/ HasPrefix(d, kUnshallow)
        /\ st \in {protocolV1UploadPackResponseStateBegin,
                   protocolV1UploadPackResponseStateScanShallows,
                   protocolV1UploadPackResponseStateScanUnshallows}
    \/ HasPrefix(d, kAck)
    \/ d = kNak

PrePackStates ==
    {protocolV1UploadPackResponseStateBegin,
     protocolV1UploadPackResponseStateScanShallows,
     protocolV1UploadPackResponseStateScanUnshallows,
     protocolV1UploadPackResponseStateBeginAcknowledgements,
     protocolV1UploadPackResponseStateScanAcknowledgements}

\* C9 (as claimed): before ScanPacks, a byte payload that is none of the
\* lines of its state stops Scan with the "unexpected packet" error.
C9_UnrecognizedRejected ==
    [][(PacketRead /\ state \in PrePackStates /\ pkt'.kind = "bytes"
            /\ ~Recognized(state, pkt'.data)) =>
        (ret' = "false" /\ err' = "unexpected packet")]_vars

\* C9 (amended): such a payload stops Scan with the "unexpected packet"
\* error in Begin only; in the other states before ScanPacks it is returned
\* as a pack chunk holding the payload, and the state becomes ScanPacks.
C9_UnrecognizedRejectedInBeginOnly ==
    [][(PacketRead /\ state \in PrePackStates /\ pkt'.kind = "bytes"
            /\ ~Recognized(state, pkt'.data)) =>
        IF state = protocolV1UploadPackResponseStateBegin
        THEN ret' = "false" /\ err' = "unexpected packet"
        ELSE /\ ret' = "true"
             /\ err' = "nil"
             /\ curr' = <<[ZeroChunk EXCEPT !.PackStream = pkt'.data]>>
             /\ state' = protocolV1UploadPackResponseStateScanPacks]_vars

\* C9 witness: a shallow line read in ScanUnshallows, where no case tries
\* it, has been returned as a pack chunk.
C9_Witness ==
    /\ ret = "true"
    /\ state = protocolV1UploadPackResponseStateScanPacks
    /\ events = 2
    /\ pkt.kind = "bytes"
    /\ HasPrefix(pkt.data, kShallow)
    /\ curr[1].PackStream = pkt.data

\* the packet is none of: shallow line, unshallow line, flush, ACK line, NAK
NoFirstFrame(p) ==
    /\ p.kind # "flush"
    /\ p.kind = "bytes" =>
        /\ ~HasPrefix(p.data, kShallow)
        /\ ~HasPrefix(p.data, kUnshallow)
        /\ ~HasPrefix(p.data, kAck)
        /\ p.data # kNak

\* C10: in Begin a packet that is no shallow line, unshallow line, flush,
\* ACK line or NAK makes Scan return false with the "unexpected packet"
\* error, without a chunk and without a change of state; in the other
\* states before ScanPacks the same packet gets what the ScanPacks case
\* does with it.
C10_UnrecognizedFirstFrame ==
    [][(PacketRead /\ state \in PrePackStates /\ NoFirstFrame(pkt')) =>
        IF state = protocolV1UploadPackResponseStateBegin
        THEN /\ ret' = "false"
             /\ err' = "unexpected packet"
             /\ curr' = <<>>
             /\ events' = 0
             /\ state' = protocolV1UploadPackResponseStateBegin
        ELSE /\ pkt'.kind = "bytes" =>
                /\ ret' = "true"
                /\ curr'[1].PackStream = pkt'.data
                /\ state' = protocolV1UploadPackResponseStateScanPacks
             /\ pkt'.kind # "bytes" =>
                /\ ret' = "false"
                /\ err' = "unexpected packet"
                /\ state' = state]_vars

\* C10 witness: the first packet, a byte payload that is no line of the
\* response, was refused.
C10_Witness ==
    /\ frames = 1
    /\ pkt.kind = "bytes"
    /\ NoFirstFrame(pkt)
    /\ state = protocolV1UploadPackResponseStateBegin
    /\ ret = "false"
    /\ err = "unexpected packet"
    /\ curr = <<>>

----------------------------------------------------------------------------
(* The end of the response *)

EndOfRequestChunk == [ZeroChunk EXCEPT !.EndOfRequest = TRUE]

\* Scenario A: shallow a, flush, NAK, flush
ScenarioA ==
    <<BytesPacket(kShallow \o <<"a", "\n">>), FlushPacket, BytesPacket(kNak), FlushPacket>>

\* C11: a call that returns the EndOfRequest chunk sets the state to End;
\* in End every call returns false with a nil error, reads nothing and
\* returns no chunk, whatever packets are left; and once the four packets
\* of Scenario A are read, the chunks returned are shallow a, EndOfShallows,
\* Nak, EndOfRequest, with no error.
C11_EndOfResponseTerminal ==
    /\ [][/\ (ret' = "true" /\ curr' = <<EndOfRequestChunk>>) =>
                state' = protocolV1UploadPackResponseStateEnd
          /\ state = protocolV1UploadPackResponseStateEnd =>
                /\ ret' = "false"
                /\ err' = "nil"
                /\ reads' = reads
                /\ frames' = frames
                /\ emitted' = emitted
                /\ curr' = curr
                /\ state' = state]_vars
    /\ [](state = protocolV1UploadPackResponseStateEnd =>
            (err = "nil" /\ emitted # <<>>
             /\ emitted[Len(emitted)] = EndOfRequestChunk
             /\ \A i \in 1..(Len(emitted) - 1) : emitted[i] # EndOfRequestChunk))
    /\ []((input = ScenarioA /\ frames = 4) =>
            /\ emitted = <<[ZeroChunk EXCEPT !.ShallowObjectID = <<"a">>],
                           [ZeroChunk EXCEPT !.EndOfShallows = TRUE],
                           [ZeroChunk EXCEPT !.Nak = TRUE],
                           EndOfRequestChunk>>
            /\ err = "nil"
            /\ state = protocolV1UploadPackResponseStateEnd)

\* C11 witness: the EndOfRequest chunk was returned with packets left in
\* the stream, and the call after it has returned false.
C11_Witness ==
    /\ state = protocolV1UploadPackResponseStateEnd
    /\ frames < Len(input)
    /\ ret = "false"
    /\ curr = <<EndOfRequestChunk>>

----------------------------------------------------------------------------
(* The encoder's mapping *)

\* the frame of each event, as the wire grammar writes it
FrameOf(c) ==
    CASE c.ShallowObjectID # <<>> ->
            [kind |-> "bytes",
             data |-> <<"s", "h", "a", "l", "l", "o", "w", " ">> \o c.ShallowObjectID \o <<"\n">>]
      [] c.UnshallowObjectID # <<>> ->
            [kind |-> "bytes",
             data |-> <<"u", "n", "s", "h", "a", "l", "l", "o", "w", " ">>
                      \o c.UnshallowObjectID \o <<"\n">>]
      [] c.AckObjectID # <<>> /\ c.AckDetail = <<>> ->
            [kind |-> "bytes", data |-> <<"A", "C", "K", " ">> \o c.AckObjectID \o <<"\n">>]
      [] c.AckObjectID # <<>> /\ c.AckDetail # <<>> ->
            [kind |-> "bytes",
             data |-> <<"A", "C", "K", " ">> \o c.AckObjectID \o <<" ">> \o c.AckDetail \o <<"\n">>]
      [] c.Nak -> [kind |-> "bytes", data |-> <<"N", "A", "K", "\n">>]
      [] c.PackStream # <<>> -> [kind |-> "bytes", data |-> c.PackStream]
      [] c.EndOfShallows \/ c.EndOfRequest -> [kind |-> "flush", data |-> <<>>]

\* C12: for a chunk with exactly one variant populated EncodeToPktLine
\* returns the one frame of that variant: "shallow id\n", "unshallow id\n",
\* flush, "ACK id\n" or "ACK id detail\n", "NAK\n", the pack bytes, flush.
C12_EncoderMapping ==
    (encOut # NoPacket /\ NumVariants(encIn) = 1) => encOut = FrameOf(encIn)

\* C12 witness: an ACK chunk without a detail has been encoded.
C12_Witness ==
    /\ NumVariants(encIn) = 1
    /\ encIn.AckObjectID = <<"a">>
    /\ encIn.AckDetail = <<>>
    /\ encOut = BytesPacket(<<"A", "C", "K", " ", "a", "\n">>)

----------------------------------------------------------------------------
(* Reads *)

\* C13: a call of Scan calls the scanner's Scan at most once and takes at
\* most one packet; a call that returns true has taken exactly one packet
\* and returned exactly one chunk; and the packets taken are the chunks
\* returned, plus at most one.
C13_OneFramePerScan ==
    /\ [][/\ reads' \in {reads, reads + 1}
          /\ frames' \in {frames, frames + 1}
          /\ events' \in {events, events + 1}
          /\ frames' = frames + 1 => reads' = reads + 1
          /\ ret' = "true" =>
                (reads' = reads + 1 /\ frames' = frames + 1 /\ events' = events + 1)
          /\ events' = events + 1 => ret' = "true"]_vars
    /\ [](events <= frames /\ frames <= events + 1)
    /\ [](frames = events + 1 => (ret = "false" /\ err \notin {"nil", "early EOF", "read error"}))

\* C13 witness: two chunks were returned and the third packet was refused.
C13_Witness ==
    /\ frames = 3
    /\ events = 2
    /\ reads = 3
    /\ err = "unexpected packet"

\* C14: when the scanner's read has failed, Scan has returned false and
\* Err is that read error, whatever the state; and once Err is not nil, no
\* call changes it, reads, takes a packet or returns a chunk.
C14_ReadErrorTerminal ==
    /\ [](scanner = "failed" => (err = "read error" /\ ret = "false"))
    /\ [][err # "nil" =>
            /\ err' = err
            /\ ret' = "false"
            /\ reads' = reads
            /\ frames' = frames
            /\ events' = events
            /\ curr' = curr
            /\ state' = state]_vars

\* C14 witness: the read failed in BeginAcknowledgements, after the
\* EndOfShallows chunk.
C14_Witness ==
    /\ scanner = "failed"
    /\ state = protocolV1UploadPackResponseStateBeginAcknowledgements
    /\ err = "read error"
    /\ events = 1
    /\ reads = 2

----------------------------------------------------------------------------
(* The pack phase *)

\* C15: in ScanPacks a byte payload, whatever it holds, is returned as the
\* chunk whose PackStream is that payload and the state stays ScanPacks; a
\* flush is returned as the EndOfRequest chunk; any other packet stops Scan
\* with the "unexpected packet" error.
C15_PackPhaseOpaque ==
    [][(PacketRead /\ state = protocolV1UploadPackResponseStateScanPacks) =>
        CASE pkt'.kind = "bytes" ->
                /\ ret' = "true"
                /\ err' = "nil"
                /\ curr' = <<[ZeroChunk EXCEPT !.PackStream = pkt'.data]>>
                /\ state' = protocolV1UploadPackResponseStateScanPacks
          [] pkt'.kind = "flush" ->
                /\ ret' = "true"
                /\ err' = "nil"
                /\ curr' = <<[ZeroChunk EXCEPT !.EndOfRequest = TRUE]>>
          [] OTHER ->
                /\ ret' = "false"
                /\ err' = "unexpected packet"
                /\ curr' = curr
                /\ state' = state]_vars

\* C15 witness: "NAK" and its line end, read in ScanPacks, was returned
\* as pack bytes.
C15_Witness ==
    /\ state = protocolV1UploadPackResponseStateScanPacks
    /\ ret = "true"
    /\ pkt = BytesPacket(kNak)
    /\ curr[1].PackStream = kNak
    /\ ~curr[1].Nak

----------------------------------------------------------------------------
(* Skipped phases *)

\* Scenario D: ACK a a, pack bytes, flush
ScenarioD ==
    <<BytesPacket(kAck \o <<"a", " ", "a", "\n">>), BytesPacket(<<"P", "A", "C", "K">>),
      FlushPacket>>

\* C16: an ACK line read first, in Begin, is returned as the ACK chunk of
\* its id and detail and the state becomes ScanAcknowledgements; "NAK" and
\* its line end read first is returned as the Nak chunk and the state
\* becomes ScanPacks; and the three packets of Scenario D give the ACK
\* chunk, the pack chunk and the EndOfRequest chunk, with no error.
C16_PhasesSkipped ==
    /\ (frames = 1 /\ input[1] = BytesPacket(kAck \o <<"a", " ", "a", "\n">>)) =>
        /\ emitted = <<[ZeroChunk EXCEPT !.AckObjectID = <<"a">>, !.AckDetail = <<"a">>]>>
        /\ state = protocolV1UploadPackResponseStateScanAcknowledgements
    /\ (frames = 1 /\ input[1] = BytesPacket(kAck \o <<"a", "\n">>)) =>
        /\ emitted = <<[ZeroChunk EXCEPT !.AckObjectID = <<"a">>]>>
        /\ state = protocolV1UploadPackResponseStateScanAcknowledgements
    /\ (frames = 1 /\ input[1] = BytesPacket(kNak)) =>
        /\ emitted = <<[ZeroChunk EXCEPT !.Nak = TRUE]>>
        /\ state = protocolV1UploadPackResponseStateScanPacks
    /\ (frames = 3 /\ input = ScenarioD) =>
        /\ emitted = <<[ZeroChunk EXCEPT !.AckObjectID = <<"a">>, !.AckDetail = <<"a">>],
                       [ZeroChunk EXCEPT !.PackStream = <<"P", "A", "C", "K">>],
                       EndOfRequestChunk>>
        /\ state = protocolV1UploadPackResponseStateEnd
        /\ err = "nil"

\* C16 witness: the three packets of Scenario D have been read.
C16_Witness ==
    /\ input = ScenarioD
    /\ frames = 3
    /\ events = 3
    /\ state = protocolV1UploadPackResponseStateEnd

----------------------------------------------------------------------------
(* Chunk *)

\* chunk c is one that packet p can give
ChunkOfPacket(c, p) ==
    IF p.kind = "flush" THEN
        c \in {[ZeroChunk EXCEPT !.EndOfShallows = TRUE], [ZeroChunk EXCEPT !.EndOfRequest = TRUE]}
    ELSE
        /\ p.kind = "bytes"
        /\ ~c.EndOfShallows /\ ~c.EndOfRequest
        /\ c.Nak => p.data = kNak
        /\ c.PackStream # <<>> => c.PackStream = p.data
        /\ c.ShallowObjectID # <<>> => HasPrefix(p.data, kShallow \o c.ShallowObjectID)
        /\ c.UnshallowObjectID # <<>> => HasPrefix(p.data, kUnshallow \o c.UnshallowObjectID)
        /\ c.AckObjectID # <<>> => HasPrefix(p.data, kAck \o c.AckObjectID)
        /\ NumVariants(c) <= 1

\* C17: a call of Scan that returns true leaves in r.curr, which Chunk
\* returns, a chunk made from the packet that call read; a call that
\* returns false leaves r.curr as it was.
C17_ChunkAccessor ==
    [][/\ ret' = "true" => (Len(curr') = 1 /\ PacketRead /\ ChunkOfPacket(curr'[1], pkt'))
       /\ ret' # "true" => curr' = curr]_vars

\* C17 witness: a call returned false on an unexpected packet and the pack
\* chunk of the call before it is still the current one.
C17_Witness ==
    /\ ret = "false"
    /\ err = "unexpected packet"
    /\ pkt = OtherPacket
    /\ events = 2
    /\ curr # <<>>
    /\ curr[1].PackStream # <<>>

----------------------------------------------------------------------------
(* Order of the chunks *)

\* place of chunk c in ShallowAnnounce* UnshallowAnnounce* EndOfShallowPhase?
\* Acknowledge* NegativeAcknowledge? PackChunk* EndOfResponse?, 0 for a
\* chunk that has none of the fields of a variant set
EventRank(c) ==
    CASE c.ShallowObjectID # <<>> -> 1
      [] c.UnshallowObjectID # <<>> -> 2
      [] c.EndOfShallows -> 3
      [] c.AckObjectID # <<>> -> 4
      [] c.Nak -> 5
      [] c.PackStream # <<>> -> 6
      [] c.EndOfRequest -> 7
      [] OTHER -> 0

OnceOnlyRanks == {3, 5, 7}

\* two neighbours of the sequence of chunks are in the order of the grammar
InGrammarOrder(c, d) ==
    /\ EventRank(c) <= EventRank(d)
    /\ EventRank(d) \in OnceOnlyRanks => EventRank(c) < EventRank(d)

\* C18: the chunks one decoder returns are, in order, shallow announcements,
\* unshallow announcements, at most one end of shallows, acknowledgements,
\* at most one NAK, pack chunks, at most one end of response: every chunk
\* returned is one of these, and follows the chunk before it in that order.
C18_EventOrderGrammar ==
    [][ret' = "true" =>
          /\ EventRank(curr'[1]) # 0
          /\ curr # <<>> => InGrammarOrder(curr[1], curr'[1])]_vars

\* the order alone, among the chunks that have a variant
C18_OrderOfPopulated ==
    [][(ret' = "true" /\ curr # <<>> /\ EventRank(curr[1]) # 0 /\ EventRank(curr'[1]) # 0)
          => InGrammarOrder(curr[1], curr'[1])]_vars

----------------------------------------------------------------------------
(* Errors *)

\* C19: a call of Scan that returns false leaves r.state and r.curr as they
\* were and counts no chunk; r.state changes only in a call that returns
\* true; r.err is set only by a call that returns false, and once it is
\* set the last call returned false.
C19_StateUnchangedOnError ==
    /\ [][/\ ret' = "false" => (state' = state /\ curr' = curr /\ events' = events)
          /\ state' # state => ret' = "true"
          /\ err' # err => (ret' = "false" /\ err = "nil")]_vars
    /\ [](err # "nil" => ret = "false")

\* C19 witness: after the end of shallows a packet of no known kind stopped
\* Scan with an error, and the state is still BeginAcknowledgements.
C19_Witness ==
    /\ ret = "false"
    /\ err = "unexpected packet"
    /\ pkt = OtherPacket
    /\ state = protocolV1UploadPackResponseStateBeginAcknowledgements
    /\ events = 1

----------------------------------------------------------------------------
(* Termination *)

\* the step is the first call of Scan that returns false
FirstFalse == ret # "false" /\ ret' = "false"

\* calls of Scan made up to the end of the step: every call before it
\* read once, and the call of the step reads unless the scan has stopped
CallsAfterStep == IF Stopped(err, state) THEN reads + 1 ELSE reads'

\* C20: on a stream of n packets followed by the end of the input, every
\* call of Scan returns true or false and never reaches
\* panic("impossible state"); a call that returns true takes one packet of
\* the stream, a call made when the stream is used up returns false, and
\* the first call that returns false is at the latest call n + 1.
C20_Termination ==
    /\ [](ret \in {"none", "true", "false"})
    /\ [](events <= frames /\ frames <= Len(input))
    /\ [][/\ ret' = "true" => frames' = frames + 1
          /\ frames = Len(input) => ret' = "false"
          /\ FirstFalse => CallsAfterStep <= Len(input) + 1]_vars

\* C20 witness: a stream of two packets gave two chunks and call three
\* returned false at the end of the input.
C20_Witness ==
    /\ Len(input) = 2
    /\ events = 2
    /\ reads = 3
    /\ scanner = "eof"
    /\ ret = "false"

====
